---- MODULE Spec2Model ----
(***************************************************************************)
(* AidMate Crisis Fetcher (src/app.py): the five pullers as operators over *)
(* the HTTP response each one receives, and POST /cron/pull as a state     *)
(* machine that walks the pullers in the handler's order.                  *)
(*                                                                         *)
(* Encodings.  Text is a sequence of one-character strings, so that        *)
(* lower(), slicing and the substring test `in` are computed.  An optional *)
(* value (Python None / an absent JSON field) is a sequence of length 0 or *)
(* 1.  Magnitudes are in tenths (25 is 2.5).  A HazardRecord keeps its     *)
(* source, its crisis and n, the position in the feed of the item it was   *)
(* built from; the other fields are formatting of that item.               *)
(***************************************************************************)
EXTENDS Integers, Sequences, FiniteSets, TLC

VARIABLES
    env,        \* process configuration read at import: which API keys are set
    body,       \* the CronParams of the request
    pc,         \* the handler's position
    chunks,     \* cron_pull's local list
    invoked,    \* the pullers called so far, in call order
    results,    \* puller -> <<>> or <<what its call did>>
    fetched,    \* source -> the responses its outbound calls received
    calls,      \* every outbound HTTP call, in order
    logs,       \* logging.warning messages
    response    \* what the endpoint answered

vars == <<env, body, pc, chunks, invoked, results, fetched, calls, logs, response>>

\* ------------------------------------------------------------------ bounds

MaxFeed == 2

\* ------------------------------------------------------------- text helpers

None == <<>>

Some(x) == <<x>>

Range(s) == {s[i] : i \in DOMAIN s}

Min(a, b) == IF a < b THEN a ELSE b

SeqsUpTo(S, n) == UNION {[1..k -> S] : k \in 0..n}

UpperToLower ==
    ("A" :> "a") @@ ("B" :> "b") @@ ("C" :> "c") @@ ("D" :> "d") @@ ("E" :> "e") @@
    ("F" :> "f") @@ ("G" :> "g") @@ ("H" :> "h") @@ ("I" :> "i") @@ ("J" :> "j") @@
    ("K" :> "k") @@ ("L" :> "l") @@ ("M" :> "m") @@ ("N" :> "n") @@ ("O" :> "o") @@
    ("P" :> "p") @@ ("Q" :> "q") @@ ("R" :> "r") @@ ("S" :> "s") @@ ("T" :> "t") @@
    ("U" :> "u") @@ ("V" :> "v") @@ ("W" :> "w") @@ ("X" :> "x") @@ ("Y" :> "y") @@
    ("Z" :> "z")

\* str.lower()
Lower(s) == [i \in 1..Len(s) |-> IF s[i] \in DOMAIN UpperToLower THEN UpperToLower[s[i]] ELSE s[i]]

\* needle in hay
Contains(needle, hay) ==
    \E i \in 0..(Len(hay) - Len(needle)) : SubSeq(hay, i + 1, i + Len(needle)) = needle

\* s[:n]
Take(s, n) == SubSeq(s, 1, Min(n, Len(s)))

\* sep.join(parts)
RECURSIVE Join(_, _)
Join(parts, sep) ==
    IF parts = <<>> THEN <<>>
    ELSE IF Len(parts) = 1 THEN parts[1]
    ELSE parts[1] \o sep \o Join(Tail(parts), sep)

\* Python truthiness of a float
Truthy(x) == x # 0

\* Python truthiness of an Optional[float]
TruthyOpt(o) == o # None /\ o[1] # 0

\* ------------------------------------------------------------ HTTP responses

\* final statuses: requests follows redirects, so what a puller sees is a
\* success (200, or another 2xx such as 203) or a client or server error
Statuses == {200, 203, 404, 500}

\* requests.get raised (connection error, timeout): there is no response
TransportError(shape0) == [kind |-> "error", status |-> 0, body |-> shape0]

Response(status, b) == [kind |-> "response", status |-> status, body |-> b]

\* Response.raise_for_status(): HTTPError for 4xx and 5xx
RaisesForStatus(status) == 400 <= status /\ status < 600

HazardRecord(source, crisis, n) == [source |-> source, crisis |-> crisis, n |-> n]

\* what one puller call did: whether it raised, the list it returned, the
\* outbound calls it made, what it logged, and whether it entered its parse branch
Result(raised, out, called, log, parsed) ==
    [raised |-> raised, out |-> out, calls |-> called, log |-> log, parsed |-> parsed]

\* ------------------------------------------------------------ SeismicPuller

USGS_GEOJSON_HOURLY == "USGS"

\* a response body as r.json() sees it: "unparseable" (r.json() raises),
\* "array" (a JSON list of items), "object" (a JSON object whose list key
\* holds items) or "bare_object" (a JSON object without that key)
Body(shape, items) == [shape |-> shape, items |-> items]

IsObject(b) == b.shape \in {"object", "bare_object"}

\* data.get(key, [])
GetList(b) == IF b.shape = "object" THEN b.items ELSE <<>>

\* one feature of the feed: its properties.mag and whether it carries the
\* geometry.coordinates and properties.time the record is built from
Feature(mag, complete) == [mag |-> mag, complete |-> complete]

\* the loop of pull_usgs_earthquakes over features[i..]
RECURSIVE UsgsLoop(_, _, _, _)
UsgsLoop(features, i, min_mag, out) ==
    IF i > Len(features) THEN [raised |-> FALSE, out |-> out]
    ELSE LET mag == features[i].mag IN
         IF mag = None \/ (Truthy(min_mag) /\ mag[1] < min_mag)
         THEN UsgsLoop(features, i + 1, min_mag, out)
         ELSE IF ~features[i].complete
              THEN [raised |-> TRUE, out |-> out]
              ELSE UsgsLoop(features, i + 1, min_mag,
                            Append(out, HazardRecord("USGS", "earthquake", i)))

pull_usgs_earthquakes(min_mag, resp) ==
    IF resp.kind = "error" THEN Result(TRUE, <<>>, <<USGS_GEOJSON_HOURLY>>, <<>>, FALSE)
    ELSE IF RaisesForStatus(resp.status) THEN Result(TRUE, <<>>, <<USGS_GEOJSON_HOURLY>>, <<>>, FALSE)
    ELSE IF resp.body.shape = "unparseable" THEN Result(TRUE, <<>>, <<USGS_GEOJSON_HOURLY>>, <<>>, FALSE)
    ELSE IF ~IsObject(resp.body) THEN Result(TRUE, <<>>, <<USGS_GEOJSON_HOURLY>>, <<>>, TRUE)
    ELSE LET l == UsgsLoop(GetList(resp.body), 1, min_mag, <<>>) IN
         Result(l.raised, IF l.raised THEN <<>> ELSE l.out, <<USGS_GEOJSON_HOURLY>>, <<>>, TRUE)

\* --------------------------------------------------------- WeatherAlertPuller

NWS_ALERTS_URL == "NWS"

hurricane == <<"h", "u", "r", "r", "i", "c", "a", "n", "e">>

tropical == <<"t", "r", "o", "p", "i", "c", "a", "l">>

flood == <<"f", "l", "o", "o", "d">>

\* Crisis without the .lower()
CrisisCaseSensitive(event) ==
    LET e == IF event = None THEN <<>> ELSE event[1] IN
    IF Contains(hurricane, e) \/ Contains(tropical, e) THEN "hurricane"
    ELSE IF Contains(flood, e) THEN "flood"
    ELSE "severe_weather"

\* "map to crisis": event is properties.event, None when absent
Crisis(event) ==
    LET e == Lower(IF event = None THEN <<>> ELSE event[1]) IN
    IF Contains(hurricane, e) \/ Contains(tropical, e) THEN "hurricane"
    ELSE IF Contains(flood, e) THEN "flood"
    ELSE "severe_weather"

\* one alert: its properties.event, and whether it carries an @id, an id or a
\* headline
Alert(event, named) == [event |-> event, named |-> named]

\* the loop of pull_nws_alerts over features[i..]; sha16(detail or headline)
\* raises on None, which is the case when the alert has no @id, no id, no
\* headline and no event
RECURSIVE NwsLoop(_, _, _)
NwsLoop(features, i, out) ==
    IF i > Len(features) THEN [raised |-> FALSE, out |-> out]
    ELSE IF ~features[i].named /\ features[i].event = None
         THEN [raised |-> TRUE, out |-> out]
         ELSE NwsLoop(features, i + 1,
                      Append(out, HazardRecord("NWS", Crisis(features[i].event), i)))

\* pull_nws_alerts catching its errors the way pull_nhc_current does
pull_nws_suppressing(resp) ==
    IF \/ resp.kind = "error"
       \/ RaisesForStatus(resp.status)
       \/ resp.body.shape = "unparseable"
       \/ ~IsObject(resp.body)
    THEN Result(FALSE, <<>>, <<NWS_ALERTS_URL>>, <<>>, FALSE)
    ELSE LET l == NwsLoop(GetList(resp.body), 1, <<>>) IN
         Result(FALSE, l.out, <<NWS_ALERTS_URL>>, <<>>, TRUE)

pull_nws_alerts(resp) ==
    IF resp.kind = "error" THEN Result(TRUE, <<>>, <<NWS_ALERTS_URL>>, <<>>, FALSE)
    ELSE IF RaisesForStatus(resp.status) THEN Result(TRUE, <<>>, <<NWS_ALERTS_URL>>, <<>>, FALSE)
    ELSE IF resp.body.shape = "unparseable" THEN Result(TRUE, <<>>, <<NWS_ALERTS_URL>>, <<>>, FALSE)
    ELSE IF ~IsObject(resp.body) THEN Result(TRUE, <<>>, <<NWS_ALERTS_URL>>, <<>>, TRUE)
    ELSE LET l == NwsLoop(GetList(resp.body), 1, <<>>) IN
         Result(l.raised, IF l.raised THEN <<>> ELSE l.out, <<NWS_ALERTS_URL>>, <<>>, TRUE)

\* -------------------------------------------------------- StormAdvisoryPuller

NHC_CURRENT == "NHC"

NhcWarning == "NHC fetch failed"

\* one entry of activeStorms: whether it is a JSON object
Storm(isobject) == [isobject |-> isobject]

\* the loop of pull_nhc_current over activeStorms[i..]; s.get raises on an
\* entry that is not an object
RECURSIVE NhcLoop(_, _, _)
NhcLoop(storms, i, out) ==
    IF i > Len(storms) THEN [raised |-> FALSE, out |-> out]
    ELSE IF ~storms[i].isobject THEN [raised |-> TRUE, out |-> out]
    ELSE NhcLoop(storms, i + 1, Append(out, HazardRecord("NHC", "hurricane", i)))

pull_nhc_current(resp) ==
    IF \/ resp.kind = "error"
       \/ RaisesForStatus(resp.status)
       \/ resp.body.shape = "unparseable"
    THEN Result(FALSE, <<>>, <<NHC_CURRENT>>, <<NhcWarning>>, FALSE)
    ELSE IF ~IsObject(resp.body) THEN Result(TRUE, <<>>, <<NHC_CURRENT>>, <<>>, TRUE)
    ELSE LET l == NhcLoop(GetList(resp.body), 1, <<>>) IN
         Result(l.raised, IF l.raised THEN <<>> ELSE l.out, <<NHC_CURRENT>>, <<>>, TRUE)

\* ----------------------------------------------------------------- FirePuller

FIRMS_URL == "FIRMS"

PREFIX_LEN == 200

LIMIT_ROWS == 200

latitude == <<"l", "a", "t", "i", "t", "u", "d", "e">>

longitude == <<"l", "o", "n", "g", "i", "t", "u", "d", "e">>

confidence == <<"c", "o", "n", "f", "i", "d", "e", "n", "c", "e">>

\* the body of the fire feed: line0 is the text of its first line, rows its
\* later lines, each already cut at the commas into cells; a cell is <<v>> for
\* the text of the number v and <<>> for text float() rejects.  Neither holds
\* a letter, so the word "latitude" can only stand in line0.
Csv(line0, rows) == [line0 |-> line0, rows |-> rows]

\* r.text
FirmsText(b) == b.line0

\* line.split(","): the cells between the commas, cut at the k-th and the
\* (k+1)-th of the cut points (the commas and the two ends of the line)
Split(line) ==
    LET cuts   == {0, Len(line) + 1} \cup {i \in 1..Len(line) : line[i] = ","}
        nth(k) == CHOOSE c \in cuts : Cardinality({d \in cuts : d < c}) = k - 1
    IN  [k \in 1..(Cardinality(cuts) - 1) |-> SubSeq(line, nth(k) + 1, nth(k + 1) - 1)]

\* str.strip()
RECURSIVE Strip(_)
Strip(t) ==
    IF t = <<>> THEN t
    ELSE IF Head(t) = " " THEN Strip(Tail(t))
    ELSE IF t[Len(t)] = " " THEN Strip(SubSeq(t, 1, Len(t) - 1))
    ELSE t

\* list.index(x), 1-based; 0 stands for the ValueError of a missing x
Index(l, x) ==
    IF \E i \in DOMAIN l : l[i] = x
    THEN CHOOSE i \in DOMAIN l : l[i] = x /\ \A j \in 1..(i - 1) : l[j] # x
    ELSE 0

\* the loop of pull_firms_us over rows[i..]: cols[ilat], cols[ilon] and
\* cols[iconf] raise IndexError on a short row, float() raises ValueError
RECURSIVE FirmsLoop(_, _, _, _, _, _)
FirmsLoop(rows, i, ilat, ilon, iconf, out) ==
    IF i > Len(rows) THEN [raised |-> FALSE, out |-> out]
    ELSE LET cols == rows[i] IN
         IF \/ Len(cols) < ilat
            \/ cols[ilat] = None
            \/ Len(cols) < ilon
            \/ cols[ilon] = None
            \/ (iconf # 0 /\ Len(cols) < iconf)
         THEN [raised |-> TRUE, out |-> out]
         ELSE FirmsLoop(rows, i + 1, ilat, ilon, iconf,
                        Append(out, HazardRecord("NASA_FIRMS", "wildfire", i)))

\* the branch of pull_firms_us that parses the body
FirmsParse(b) ==
    LET cells  == Split(b.line0)
        header == [k \in DOMAIN cells |-> Strip(cells[k])]
        ilat   == Index(header, latitude)
        ilon   == Index(header, longitude)
        iconf  == Index(header, confidence)
    IN  IF ilat = 0 \/ ilon = 0 THEN [raised |-> TRUE, out |-> <<>>]
        ELSE FirmsLoop(Take(b.rows, LIMIT_ROWS), 1, ilat, ilon, iconf, <<>>)

\* pull_firms_us looking for the word in the whole body, not in its first 200
\* characters
pull_firms_whole_body(key, resp) ==
    IF ~key THEN Result(FALSE, <<>>, <<>>, <<>>, FALSE)
    ELSE IF resp.kind = "error" THEN Result(TRUE, <<>>, <<FIRMS_URL>>, <<>>, FALSE)
    ELSE IF resp.status = 200 /\ Contains(latitude, Lower(FirmsText(resp.body)))
    THEN LET l == FirmsParse(resp.body) IN
         Result(l.raised, IF l.raised THEN <<>> ELSE l.out, <<FIRMS_URL>>, <<>>, TRUE)
    ELSE Result(FALSE, <<>>, <<FIRMS_URL>>, <<>>, FALSE)

pull_firms_us(key, resp) ==
    IF ~key THEN Result(FALSE, <<>>, <<>>, <<>>, FALSE)
    ELSE IF resp.kind = "error" THEN Result(TRUE, <<>>, <<FIRMS_URL>>, <<>>, FALSE)
    ELSE IF resp.status = 200 /\ Contains(latitude, Lower(Take(FirmsText(resp.body), PREFIX_LEN)))
    THEN LET l == FirmsParse(resp.body) IN
         Result(l.raised, IF l.raised THEN <<>> ELSE l.out, <<FIRMS_URL>>, <<>>, TRUE)
    ELSE Result(FALSE, <<>>, <<FIRMS_URL>>, <<>>, FALSE)

\* ----------------------------------------------------------- AirQualityPuller

AIRNOW_URL == "AIRNOW"

\* one element of the AirNow answer: whether it is an observation carrying
\* ParameterName, AQI, DateObserved, HourObserved and Category.Name
Observation(complete) == [complete |-> complete]

\* the loop of pull_airnow over r.json()[i..]; item[...] raises on an element
\* that lacks a field
RECURSIVE AirnowLoop(_, _, _)
AirnowLoop(items, i, out) ==
    IF i > Len(items) THEN [raised |-> FALSE, out |-> out]
    ELSE IF ~items[i].complete THEN [raised |-> TRUE, out |-> out]
    ELSE AirnowLoop(items, i + 1, Append(out, HazardRecord("AirNow", "wildfire", i)))

\* iterating a JSON object yields its keys, and a key is a string that
\* item['ParameterName'] rejects: an object with any key raises
pull_airnow(key, resp) ==
    IF ~key THEN Result(FALSE, <<>>, <<>>, <<>>, FALSE)
    ELSE IF resp.kind = "error" THEN Result(TRUE, <<>>, <<AIRNOW_URL>>, <<>>, FALSE)
    ELSE IF resp.status # 200 THEN Result(FALSE, <<>>, <<AIRNOW_URL>>, <<>>, FALSE)
    ELSE IF resp.body.shape = "unparseable" THEN Result(TRUE, <<>>, <<AIRNOW_URL>>, <<>>, FALSE)
    ELSE IF resp.body.shape = "bare_object" THEN Result(FALSE, <<>>, <<AIRNOW_URL>>, <<>>, TRUE)
    ELSE IF resp.body.shape = "object"
    THEN Result(resp.body.items # <<>>, <<>>, <<AIRNOW_URL>>, <<>>, TRUE)
    ELSE LET l == AirnowLoop(resp.body.items, 1, <<>>) IN
         Result(l.raised, IF l.raised THEN <<>> ELSE l.out, <<AIRNOW_URL>>, <<>>, TRUE)

\* ------------------------------------------------------------------ endpoint

INGEST_URL == "INGEST"

PREVIEW_LEN == 2

Pullers == <<"earthquakes", "nws", "nhc", "firms", "airnow">>

Sources == {USGS_GEOJSON_HOURLY, NWS_ALERTS_URL, NHC_CURRENT, FIRMS_URL, AIRNOW_URL}

Flags == [pull_earthquakes : BOOLEAN, pull_nws : BOOLEAN, pull_nhc : BOOLEAN,
          pull_firms : BOOLEAN, pull_airnow : BOOLEAN]

\* the request body; states only travels into the weather-alert query string
\* and is left out
CronParams(flags, min_mag, air_lat, air_lon) ==
    [pull_earthquakes |-> flags.pull_earthquakes, pull_nws |-> flags.pull_nws,
     pull_nhc |-> flags.pull_nhc, pull_firms |-> flags.pull_firms,
     pull_airnow |-> flags.pull_airnow,
     min_mag |-> min_mag, air_lat |-> air_lat, air_lon |-> air_lon]

\* a puller's list put in front of chunks
ExtendInFront(list, out) == out \o list

\* chunks += <a puller's list>
Extend(list, out) == list \o out

\* the condition guarding the air-quality puller
AirnowGate(b) == b.pull_airnow /\ TruthyOpt(b.air_lat) /\ TruthyOpt(b.air_lon)

\* the forwarding step with post_chunks switched on
ForwardCallsPosting(list) == IF list = <<>> THEN <<>> ELSE <<INGEST_URL>>

\* the outbound calls of the forwarding step: post_chunks is commented out
ForwardCalls(list) == <<>>

\* Reply counting the preview, not the list
ReplyCountingPreview(list) ==
    IF list = <<>>
    THEN [kind |-> "ok", added |-> 0, note |-> TRUE, preview |-> FALSE, chunks |-> <<>>]
    ELSE [kind |-> "ok", added |-> Len(Take(list, PREVIEW_LEN)), note |-> FALSE,
          preview |-> TRUE, chunks |-> Take(list, PREVIEW_LEN)]

\* the two return statements of cron_pull
Reply(list) ==
    IF list = <<>>
    THEN [kind |-> "ok", added |-> 0, note |-> TRUE, preview |-> FALSE, chunks |-> <<>>]
    ELSE [kind |-> "ok", added |-> Len(list), note |-> FALSE, preview |-> TRUE,
          chunks |-> Take(list, PREVIEW_LEN)]

\* an exception leaving cron_pull: the framework answers 500 without a body of ours
ErrorReply == [kind |-> "error", added |-> 0, note |-> FALSE, preview |-> FALSE, chunks |-> <<>>]

NoReply == [kind |-> "none", added |-> 0, note |-> FALSE, preview |-> FALSE, chunks |-> <<>>]

\* the handler calls puller p, whose outbound call (if it makes one) is
\* answered by resp, and then either goes on to next or dies of its exception
Invoke(p, src, resp, r, next) ==
    /\ invoked' = Append(invoked, p)
    /\ results' = [results EXCEPT ![p] = <<r>>]
    /\ calls' = calls \o r.calls
    /\ fetched' = [fetched EXCEPT ![src] = IF r.calls = <<>> THEN @ ELSE Append(@, resp)]
    /\ logs' = logs \o r.log
    /\ IF r.raised
       THEN /\ pc' = "failed"
            /\ response' = ErrorReply
            /\ UNCHANGED chunks
       ELSE /\ pc' = next
            /\ chunks' = Extend(chunks, r.out)
            /\ UNCHANGED response
    /\ UNCHANGED <<env, body>>

Skip(next) ==
    /\ pc' = next
    /\ UNCHANGED <<env, body, chunks, invoked, results, fetched, calls, logs, response>>

StepEarthquakes(R) ==
    /\ pc = "earthquakes"
    /\ \/ ~body.pull_earthquakes /\ Skip("nws")
       \/ /\ body.pull_earthquakes
          /\ \E resp \in R :
                Invoke("earthquakes", USGS_GEOJSON_HOURLY, resp,
                       pull_usgs_earthquakes(body.min_mag, resp), "nws")

StepNws(R) ==
    /\ pc = "nws"
    /\ \/ ~body.pull_nws /\ Skip("nhc")
       \/ /\ body.pull_nws
          /\ \E resp \in R :
                Invoke("nws", NWS_ALERTS_URL, resp, pull_nws_alerts(resp), "nhc")

StepNhc(R) ==
    /\ pc = "nhc"
    /\ \/ ~body.pull_nhc /\ Skip("firms")
       \/ /\ body.pull_nhc
          /\ \E resp \in R :
                Invoke("nhc", NHC_CURRENT, resp, pull_nhc_current(resp), "firms")

StepFirms(R) ==
    /\ pc = "firms"
    /\ \/ ~body.pull_firms /\ Skip("airnow")
       \/ /\ body.pull_firms
          /\ \E resp \in R :
                Invoke("firms", FIRMS_URL, resp,
                       pull_firms_us(env.FIRMS_API_KEY, resp), "airnow")

StepAirnow(R) ==
    /\ pc = "airnow"
    /\ \/ ~AirnowGate(body) /\ Skip("respond")
       \/ /\ AirnowGate(body)
          /\ \E resp \in R :
                Invoke("airnow", AIRNOW_URL, resp,
                       pull_airnow(env.AIRNOW_KEY, resp), "respond")

Respond ==
    /\ pc = "respond"
    /\ calls' = calls \o ForwardCalls(chunks)
    /\ response' = Reply(chunks)
    /\ pc' = "done"
    /\ UNCHANGED <<env, body, chunks, invoked, results, fetched, logs>>

\* ------------------------------------------------- what the sources may answer

JsonBodies(feeds) ==
    {Body("unparseable", <<>>), Body("array", <<>>), Body("bare_object", <<>>)}
        \cup {Body("object", f) : f \in feeds}

Responses(statuses, bodies, nobody) ==
    {TransportError(nobody)} \cup {Response(st, b) : st \in statuses, b \in bodies}

NoJson == Body("unparseable", <<>>)

NoCsv == Csv(<<>>, <<>>)

Mags == {None, Some(-20), Some(-5), Some(0), Some(24), Some(25)}

MinMags == {-10, 0, 25}

UsgsFeatures == {Feature(m, c) : m \in Mags, c \in BOOLEAN}

UsgsResponses == Responses(Statuses, JsonBodies(SeqsUpTo(UsgsFeatures, MaxFeed)), NoJson)

HurricaneWarning == <<"H", "u", "r", "r", "i", "c", "a", "n", "e", " ", "W", "a", "r", "n", "i", "n", "g">>

FloodWatch == <<"F", "l", "o", "o", "d", " ", "W", "a", "t", "c", "h">>

WinterStormWarning == <<"W", "i", "n", "t", "e", "r", " ", "S", "t", "o", "r", "m", " ", "W", "a", "r", "n", "i", "n", "g">>

TropicalFlood == <<"T", "r", "o", "p", "i", "c", "a", "l", " ", "S", "t", "o", "r", "m", " ", "F", "l", "o", "o", "d", " ", "A", "d", "v", "i", "s", "o", "r", "y">>

FloodThenHurricane == <<"F", "L", "O", "O", "D", " ", "A", "N", "D", " ", "H", "U", "R", "R", "I", "C", "A", "N", "E", " ", "S", "T", "A", "T", "E", "M", "E", "N", "T">>

FlashFloodUpper == <<"F", "l", "a", "s", "h", " ", "F", "L", "O", "O", "D", " ", "W", "a", "r", "n", "i", "n", "g">>

NearMiss == <<"H", "u", "r", "r", "i", "c", "a", "n", " ", "F", "l", "o", "d", " ", "T", "r", "o", "p", "i", "c", "a">>

EventNames ==
    {HurricaneWarning, FloodWatch, WinterStormWarning, TropicalFlood,
     FloodThenHurricane, FlashFloodUpper, NearMiss, <<>>}

Events == {None} \cup {Some(e) : e \in EventNames}

NwsAlerts == {Alert(e, n) : e \in Events, n \in BOOLEAN}

NwsResponses == Responses(Statuses, JsonBodies(SeqsUpTo(NwsAlerts, MaxFeed)), NoJson)

NhcStorms == {Storm(o) : o \in BOOLEAN}

NhcResponses == Responses(Statuses, JsonBodies(SeqsUpTo(NhcStorms, MaxFeed)), NoJson)

Comma == <<",">>

InvalidKey == <<"I", "n", "v", "a", "l", "i", "d", " ", "M", "A", "P", "_", "K", "E", "Y", ".">>

LatitudeCap == <<"L", "a", "t", "i", "t", "u", "d", "e">>

LongitudeCap == <<"L", "o", "n", "g", "i", "t", "u", "d", "e">>

\* a column name of n characters
Filler(n) == [i \in 1..n |-> "x"]

\* first lines: the feed's usual header, with and without confidence, with a
\* padded column, capitalised, without longitude, behind a first column that
\* ends the word at character 200 or at 201, and an error text
FirmsLines ==
    {Join(<<latitude, longitude, confidence>>, Comma),
     Join(<<latitude, longitude>>, Comma),
     Join(<<Filler(1), <<" ">> \o latitude \o <<" ">>, longitude>>, Comma),
     Join(<<LatitudeCap, LongitudeCap>>, Comma),
     Join(<<latitude, Filler(2)>>, Comma),
     Join(<<Filler(PREFIX_LEN - 9), latitude, longitude>>, Comma),
     Join(<<Filler(PREFIX_LEN - 8), latitude, longitude>>, Comma),
     InvalidKey,
     <<>>}

FirmsCells == {None, Some(41)}

FirmsRows == SeqsUpTo(FirmsCells, 3) \ {<<>>}

FirmsBodies == {Csv(l, rows) : l \in FirmsLines, rows \in SeqsUpTo(FirmsRows, MaxFeed)}

FirmsResponses == Responses(Statuses, FirmsBodies, NoCsv)

AirnowItems == {Observation(c) : c \in BOOLEAN}

AirnowResponses == Responses(Statuses, JsonBodies(SeqsUpTo(AirnowItems, MaxFeed)), NoJson)

\* the answers the whole-request specification draws from: per source a
\* transport error, error statuses, bodies that do not parse or have the
\* wrong shape, a feed with an item that lacks a field, and well-formed feeds
UsgsSmall ==
    {TransportError(NoJson), Response(404, NoJson), Response(200, Body("array", <<>>)),
     Response(200, NoJson), Response(500, Body("object", <<Feature(Some(25), TRUE)>>)),
     Response(200, Body("object", <<Feature(Some(25), FALSE)>>)),
     Response(200, Body("object", <<Feature(Some(25), TRUE)>>)),
     Response(200, Body("object", <<Feature(Some(-5), TRUE), Feature(Some(25), TRUE)>>))}

NwsSmall ==
    {TransportError(NoJson), Response(500, NoJson), Response(200, Body("array", <<>>)),
     Response(200, NoJson), Response(404, Body("object", <<Alert(Some(FloodWatch), TRUE)>>)),
     Response(200, Body("object", <<Alert(None, FALSE)>>)),
     Response(200, Body("object", <<>>)),
     Response(200, Body("object", <<Alert(Some(FloodWatch), TRUE), Alert(None, TRUE)>>))}

NhcSmall ==
    {TransportError(NoJson), Response(404, NoJson), Response(200, NoJson),
     Response(200, Body("array", <<>>)), Response(200, Body("bare_object", <<>>)),
     Response(200, Body("object", <<Storm(TRUE), Storm(FALSE)>>)),
     Response(200, Body("object", <<Storm(TRUE), Storm(TRUE)>>))}

FirmsSmall ==
    {TransportError(NoCsv), Response(500, Csv(InvalidKey, <<>>)),
     Response(200, Csv(InvalidKey, <<>>)),
     Response(200, Csv(Join(<<LatitudeCap, LongitudeCap>>, Comma), <<>>)),
     Response(200, Csv(Join(<<latitude, longitude>>, Comma), << <<Some(41), None>> >>)),
     Response(200, Csv(Join(<<latitude, longitude>>, Comma), << <<Some(41), Some(41)>> >>))}

AirnowSmall ==
    {TransportError(NoJson), Response(500, NoJson), Response(200, NoJson),
     Response(200, Body("object", <<Observation(FALSE)>>)),
     Response(200, Body("array", <<Observation(TRUE), Observation(FALSE)>>)),
     Response(200, Body("array", <<Observation(TRUE), Observation(TRUE)>>))}

\* ------------------------------------------------------------ specifications

Coords == {None, Some(0), Some(41)}

Keys == [FIRMS_API_KEY : BOOLEAN, AIRNOW_KEY : BOOLEAN]

AllOff ==
    [pull_earthquakes |-> FALSE, pull_nws |-> FALSE, pull_nhc |-> FALSE,
     pull_firms |-> FALSE, pull_airnow |-> FALSE]

\* the handler at position at, nothing called yet
Start(at) ==
    /\ pc = at
    /\ chunks = <<>>
    /\ invoked = <<>>
    /\ results = [p \in Range(Pullers) |-> <<>>]
    /\ fetched = [src \in Sources |-> <<>>]
    /\ calls = <<>>
    /\ logs = <<>>
    /\ response = NoReply

\* a request entering cron_pull
Init ==
    /\ env \in Keys
    /\ body \in {CronParams(f, m, lat, lon) :
                    f \in Flags, m \in {0, 25}, lat \in Coords, lon \in Coords}
    /\ Start("earthquakes")

Next ==
    \/ StepEarthquakes(UsgsSmall)
    \/ StepNws(NwsSmall)
    \/ StepNhc(NhcSmall)
    \/ StepFirms(FirmsSmall)
    \/ StepAirnow(AirnowSmall)
    \/ Respond

Spec == Init /\ [][Next]_vars

\* SeismicPuller alone, over every feed of up to MaxFeed features
InitUsgs ==
    /\ env \in Keys
    /\ body \in {CronParams([AllOff EXCEPT !.pull_earthquakes = on], m, None, None) :
                    on \in BOOLEAN, m \in MinMags}
    /\ Start("earthquakes")

NextUsgs == StepEarthquakes(UsgsResponses)

SpecUsgs == InitUsgs /\ [][NextUsgs]_vars

\* WeatherAlertPuller alone: the handler has passed a disabled seismic puller
InitNws ==
    /\ env \in Keys
    /\ body \in {CronParams([AllOff EXCEPT !.pull_nws = on], 25, None, None) : on \in BOOLEAN}
    /\ Start("nws")

NextNws == StepNws(NwsResponses)

SpecNws == InitNws /\ [][NextNws]_vars

\* StormAdvisoryPuller alone
InitNhc ==
    /\ env \in Keys
    /\ body \in {CronParams([AllOff EXCEPT !.pull_nhc = on], 25, None, None) : on \in BOOLEAN}
    /\ Start("nhc")

NextNhc == StepNhc(NhcResponses)

SpecNhc == InitNhc /\ [][NextNhc]_vars

\* FirePuller alone
InitFirms ==
    /\ env \in Keys
    /\ body \in {CronParams([AllOff EXCEPT !.pull_firms = on], 25, None, None) : on \in BOOLEAN}
    /\ Start("firms")

NextFirms == StepFirms(FirmsResponses)

SpecFirms == InitFirms /\ [][NextFirms]_vars

\* ------------------------------------------------------------ reading a state

Called(p) == results[p] # <<>>

Res(p) == results[p][1]

Returned(p) == Called(p) /\ ~Res(p).raised

Answered(src) == fetched[src] # <<>>

Resp(src) == fetched[src][1]

Pos(p) == CHOOSE i \in DOMAIN Pullers : Pullers[i] = p

Non2xx(resp) == resp.kind = "response" /\ (resp.status < 200 \/ resp.status > 299)

\* the lists the pullers of ps returned, one after the other
RECURSIVE ConcatOuts(_)
ConcatOuts(ps) ==
    IF ps = <<>> THEN <<>>
    ELSE (IF Returned(Head(ps)) THEN Res(Head(ps)).out ELSE <<>>) \o ConcatOuts(Tail(ps))

\* the positions of seq whose element satisfies Test, ascending
Positions(seq, Test(_)) ==
    LET idx == [i \in 1..Len(seq) |-> i] IN SelectSeq(idx, LAMBDA i : Test(seq[i]))

\* --------------------------------------------------------------------- C1

\* C1 (as claimed): when SeismicPuller returns, its records are exactly the
\* features whose magnitude is present and at or above min_mag, one record
\* each, in feed order; a feature with no magnitude or one below min_mag
\* gives no record.  This is stated for every min_mag, 0 included.
C1_FilterByThreshold ==
    Returned("earthquakes") =>
        LET feed == GetList(Resp(USGS_GEOJSON_HOURLY).body)
            keep == Positions(feed, LAMBDA f : f.mag # None /\ f.mag[1] >= body.min_mag)
        IN  Res("earthquakes").out =
                [k \in 1..Len(keep) |-> HazardRecord("USGS", "earthquake", keep[k])]

\* the same with the threshold 0 left out: what the code does keep to
C1_FilterByNonzeroThreshold == body.min_mag # 0 => C1_FilterByThreshold

\* --------------------------------------------------------------------- C7

\* word occurs in name, letter case ignored
HasWord(word, name) ==
    \E k \in 0..(Len(name) - Len(word)) :
        \A j \in 1..Len(word) : Lower(<<name[k + j]>>) = <<word[j]>>

ExpectedCrisis(name) ==
    IF HasWord(hurricane, name) \/ HasWord(tropical, name) THEN "hurricane"
    ELSE IF HasWord(flood, name) THEN "flood"
    ELSE "severe_weather"

\* C7: when WeatherAlertPuller returns, every alert of the feed has one record,
\* in feed order, whose crisis is hurricane if the event name contains
\* "hurricane" or "tropical" in any letter case, else flood if it contains
\* "flood", else severe_weather; "Hurricane Warning" is hurricane, "Flood
\* Watch" flood, "Winter Storm Warning" severe_weather, a name with both
\* "tropical" and "flood" hurricane, and an absent name severe_weather.
C7_Classification ==
    Returned("nws") =>
        LET feed == GetList(Resp(NWS_ALERTS_URL).body)
            out  == Res("nws").out
        IN  /\ Len(out) = Len(feed)
            /\ \A i \in 1..Len(out) :
                  LET ev == feed[i].event IN
                  /\ out[i].n = i
                  /\ out[i].crisis = ExpectedCrisis(IF ev = None THEN <<>> ELSE ev[1])
                  /\ ev = None => out[i].crisis = "severe_weather"
                  /\ ev = Some(HurricaneWarning) => out[i].crisis = "hurricane"
                  /\ ev = Some(FloodWatch) => out[i].crisis = "flood"
                  /\ ev = Some(WinterStormWarning) => out[i].crisis = "severe_weather"
                  /\ ev = Some(TropicalFlood) => out[i].crisis = "hurricane"

\* a feed with a name holding both "tropical" and "flood", an upper-case
\* name where "FLOOD" stands before "HURRICANE", and an alert with no name
C7_Witness ==
    /\ Returned("nws")
    /\ LET feed == GetList(Resp(NWS_ALERTS_URL).body) IN
       /\ Len(feed) = MaxFeed
       /\ feed[1].event \in {Some(TropicalFlood), Some(FloodThenHurricane)}
       /\ feed[MaxFeed].event = None
       /\ Res("nws").out[1].crisis = "hurricane"
       /\ Res("nws").out[MaxFeed].crisis = "severe_weather"

\* --------------------------------------------------------------------- C9

\* "latitude" stands, in any letter case, within the first 200 characters
WordInPrefix(text) ==
    \E k \in 0..(Min(Len(text), PREFIX_LEN) - Len(latitude)) :
        \A j \in 1..Len(latitude) : Lower(<<text[k + j]>>) = <<latitude[j]>>

\* C9: FirePuller called without an API key makes no outbound call, returns
\* the empty list and does not raise; answered with a status other than 200,
\* or with a body whose first 200 characters do not hold "latitude" in any
\* letter case, it returns the empty list and does not raise; it enters its
\* parsing branch only with the key set, status 200 and the word in the
\* first 200 characters.
C9_FirmsGates ==
    Called("firms") =>
        LET r == Res("firms") IN
        /\ ~env.FIRMS_API_KEY =>
              r.calls = <<>> /\ ~Answered(FIRMS_URL) /\ r.out = <<>> /\ ~r.raised /\ ~r.parsed
        /\ (Answered(FIRMS_URL) /\ Resp(FIRMS_URL).kind = "response") =>
              LET resp == Resp(FIRMS_URL) IN
              /\ (resp.status # 200 \/ ~WordInPrefix(resp.body.line0)) =>
                    r.out = <<>> /\ ~r.raised /\ ~r.parsed
              /\ (resp.status = 200 /\ WordInPrefix(resp.body.line0)) => r.parsed
        /\ r.parsed =>
              /\ env.FIRMS_API_KEY
              /\ Answered(FIRMS_URL)
              /\ Resp(FIRMS_URL).kind = "response"
              /\ Resp(FIRMS_URL).status = 200
              /\ WordInPrefix(Resp(FIRMS_URL).body.line0)

\* status 200 and a header that names latitude, but only from character 194
\* on, so that the word ends at 201: the empty list, nothing raised
C9_Witness ==
    /\ Called("firms")
    /\ env.FIRMS_API_KEY
    /\ Answered(FIRMS_URL)
    /\ Resp(FIRMS_URL).kind = "response"
    /\ Resp(FIRMS_URL).status = 200
    /\ Contains(latitude, Resp(FIRMS_URL).body.line0)
    /\ ~WordInPrefix(Resp(FIRMS_URL).body.line0)
    /\ Resp(FIRMS_URL).body.rows # <<>>
    /\ Res("firms").out = <<>>
    /\ ~Res("firms").raised

\* --------------------------------------------------------------------- C8

\* the body is an object whose activeStorms is a list of objects
NhcWellFormed(b) ==
    b.shape = "object" /\ \A i \in DOMAIN b.items : b.items[i].isobject

\* the fetch failed: no response, a non-2xx status, or a body that is
\* unparseable or parseable and malformed
NhcFailure(resp) ==
    resp.kind = "error" \/ Non2xx(resp) \/ ~NhcWellFormed(resp.body)

\* C8 (as claimed): StormAdvisoryPuller never raises, and on a failed fetch
\* it returns the empty list and logs the failure.
C8_NhcNeverRaises ==
    Called("nhc") =>
        /\ ~Res("nhc").raised
        /\ NhcFailure(Resp(NHC_CURRENT)) =>
              Res("nhc").out = <<>> /\ Res("nhc").log # <<>>

\* the part of C8 the code keeps to: a transport error, an error status and
\* an unparseable body give the empty list and one log line, nothing raised
C8_NhcCaughtFailures ==
    (Called("nhc") /\ LET resp == Resp(NHC_CURRENT) IN
                      resp.kind = "error" \/ Non2xx(resp) \/ resp.body.shape = "unparseable")
        => Res("nhc") = Result(FALSE, <<>>, <<NHC_CURRENT>>, <<NhcWarning>>, FALSE)

\* --------------------------------------------------------------------- C2

\* the first line names a latitude and a longitude column and every row has
\* a number in both (and a cell in the confidence column, if there is one)
FirmsWellFormed(b) ==
    LET cells  == Split(b.line0)
        header == [k \in DOMAIN cells |-> Strip(cells[k])]
        cols   == {latitude, longitude}
    IN  /\ cols \subseteq Range(header)
        /\ \A i \in DOMAIN b.rows : \A k \in DOMAIN header :
              /\ header[k] \in cols => (k <= Len(b.rows[i]) /\ b.rows[i][k] # None)
              /\ header[k] = confidence => k <= Len(b.rows[i])

\* the body is a list of complete observations
AirnowWellFormed(b) ==
    b.shape = "array" /\ \A i \in DOMAIN b.items : b.items[i].complete

\* the source of a best-effort puller failed: no response, a non-2xx status,
\* or a body of unexpected shape
BestEffortFailure(p) ==
    CASE p = "nhc" -> Answered(NHC_CURRENT) /\ NhcFailure(Resp(NHC_CURRENT))
      [] p = "firms" ->
            /\ Answered(FIRMS_URL)
            /\ LET resp == Resp(FIRMS_URL) IN
               resp.kind = "error" \/ Non2xx(resp) \/ ~FirmsWellFormed(resp.body)
      [] p = "airnow" ->
            /\ Answered(AIRNOW_URL)
            /\ LET resp == Resp(AIRNOW_URL) IN
               resp.kind = "error" \/ Non2xx(resp) \/ ~AirnowWellFormed(resp.body)

\* C2 (as claimed): a best-effort puller whose source failed contributes the
\* empty list, and the request does not end in an error.
C2_BestEffortDegrades ==
    \A p \in {"nhc", "firms", "airnow"} :
        (Called(p) /\ BestEffortFailure(p)) =>
            /\ Returned(p)
            /\ Res(p).out = <<>>
            /\ pc # "failed"
            /\ response.kind # "error"

\* --------------------------------------------------------------------- C3

\* the fetch of a propagating source failed at the HTTP layer (no response,
\* or the error status raise_for_status rejects) or at the parse layer (a
\* body that is no JSON, or JSON that is not an object)
PropagatingFailure(resp) ==
    \/ resp.kind = "error"
    \/ resp.status >= 400
    \/ resp.body.shape \in {"unparseable", "array"}

SourceOf(p) == IF p = "earthquakes" THEN USGS_GEOJSON_HOURLY ELSE NWS_ALERTS_URL

\* the request died in puller p: an error answer without records, p the last
\* puller called, and nothing called or answered after it
AbortedIn(p) ==
    /\ pc = "failed"
    /\ response = ErrorReply
    /\ response.chunks = <<>>
    /\ invoked[Len(invoked)] = p
    /\ \A q \in Range(Pullers) : Pos(q) > Pos(p) => ~Called(q)
    /\ calls[Len(calls)] = SourceOf(p)

\* C3: when the fetch of the seismic or of the weather-alert puller fails at
\* the HTTP or the parse layer, or the puller raises for any other reason,
\* the request ends in an error: no success answer, no records of earlier
\* pullers in the answer, no later puller called.
C3_PropagatingAborts ==
    \A p \in {"earthquakes", "nws"} :
        Called(p) =>
            /\ PropagatingFailure(Resp(SourceOf(p))) => Res(p).raised
            /\ Res(p).raised => AbortedIn(p)

\* the seismic puller had returned records when the weather-alert fetch
\* failed, with later pullers enabled
C3_Witness ==
    /\ Returned("earthquakes")
    /\ Res("earthquakes").out # <<>>
    /\ Called("nws")
    /\ PropagatingFailure(Resp(NWS_ALERTS_URL))
    /\ body.pull_nhc /\ body.pull_firms
    /\ pc = "failed"
    /\ response.kind = "error"

\* --------------------------------------------------------------------- C4

FlagOf(b, p) ==
    CASE p = "earthquakes" -> b.pull_earthquakes
      [] p = "nws" -> b.pull_nws
      [] p = "nhc" -> b.pull_nhc
      [] p = "firms" -> b.pull_firms
      [] p = "airnow" -> b.pull_airnow

\* the handler has passed puller p's position without an error
Passed(p) ==
    pc \in {"respond", "done"} \/ (pc \in Range(Pullers) /\ Pos(pc) > Pos(p))

\* C4: the pullers are called in the order seismic, weather-alert,
\* storm-advisory, fire, air-quality; a puller whose flag is false is never
\* called (nor the air-quality puller without both coordinates), and each of
\* the first four whose flag is true is called once the handler has passed
\* it; the aggregated list is the concatenation of the returned lists in the
\* order of the calls, nothing removed.
C4_OrderAndConcatenation ==
    /\ \A i, j \in DOMAIN invoked : i < j => Pos(invoked[i]) < Pos(invoked[j])
    /\ \A p \in Range(Pullers) : Called(p) <=> p \in Range(invoked)
    /\ \A p \in Range(Pullers) : Called(p) => FlagOf(body, p)
    /\ Called("airnow") => body.air_lat # None /\ body.air_lon # None
    /\ \A p \in {"earthquakes", "nws", "nhc", "firms"} :
          (Passed(p) /\ FlagOf(body, p)) => Returned(p)
    /\ pc # "failed" => chunks = ConcatOuts(Pullers)
    /\ pc # "failed" => Len(chunks) = Len(ConcatOuts(invoked))
    /\ pc = "done" => response.added = Len(ConcatOuts(Pullers))

\* a finished request in which a disabled puller stands between two that
\* returned records
C4_Witness ==
    /\ pc = "done"
    /\ ~body.pull_nws
    /\ Returned("earthquakes") /\ Res("earthquakes").out # <<>>
    /\ Returned("nhc") /\ Res("nhc").out # <<>>
    /\ Returned("airnow") /\ Res("airnow").out # <<>>
    /\ Len(invoked) >= 3

\* --------------------------------------------------------------------- C5

\* C5 (as claimed): once the handler is past the air-quality step, the
\* air-quality puller was called if and only if pull_airnow is true and both
\* coordinates are present, whatever their values.
C5_AirnowIffPresent ==
    pc \in {"respond", "done"} =>
        (Called("airnow") <=>
            (body.pull_airnow /\ body.air_lat # None /\ body.air_lon # None))

\* the same for coordinates other than 0: what the code does keep to
C5_AirnowIffNonzero ==
    (pc \in {"respond", "done"} /\ body.air_lat # Some(0) /\ body.air_lon # Some(0)) =>
        (Called("airnow") <=>
            (body.pull_airnow /\ body.air_lat # None /\ body.air_lon # None))

\* --------------------------------------------------------------------- C6

\* C6: a request that completes answers in one of two shapes: with no record
\* aggregated (as when every flag is false and no coordinate is given),
\* added = 0 with a note and no records; otherwise added = the number of
\* aggregated records, at least 1, and chunks = the first two of them (the
\* only one when there is one).
C6_ReplyShapes ==
    pc = "done" =>
        LET all == ConcatOuts(Pullers) IN
        /\ response.kind = "ok"
        /\ ((\A p \in Range(Pullers) : ~FlagOf(body, p))
                /\ body.air_lat = None /\ body.air_lon = None) =>
              invoked = <<>> /\ response.added = 0 /\ response.note
        /\ all = <<>> =>
              /\ response.added = 0
              /\ response.note
              /\ ~response.preview
              /\ response.chunks = <<>>
        /\ all # <<>> =>
              /\ response.added = Len(all)
              /\ response.added >= 1
              /\ ~response.note
              /\ response.preview
              /\ Len(response.chunks) = Min(PREVIEW_LEN, Len(all))
              /\ \A i \in DOMAIN response.chunks : response.chunks[i] = all[i]

\* a finished request with more than two records
C6_Witness ==
    /\ pc = "done"
    /\ Len(ConcatOuts(Pullers)) > PREVIEW_LEN
    /\ response.added = Len(ConcatOuts(Pullers))
    /\ Len(response.chunks) = PREVIEW_LEN

\* --------------------------------------------------------------------- C10

Count(seq, x) == Cardinality({i \in DOMAIN seq : seq[i] = x})

SourcesInOrder ==
    <<USGS_GEOJSON_HOURLY, NWS_ALERTS_URL, NHC_CURRENT, FIRMS_URL, AIRNOW_URL>>

\* C10: in every state of a request each source has been called at most
\* once, whatever it answered; the calls follow one another in the order of
\* the pullers, each answered before the next is made; and the ingestion
\* endpoint has not been called.
C10_OneCallEach ==
    /\ \A src \in Sources : Count(calls, src) <= 1 /\ Len(fetched[src]) = Count(calls, src)
    /\ \A p \in Range(Pullers) : Called(p) => Len(Res(p).calls) <= 1
    /\ Count(calls, INGEST_URL) = 0
    /\ Range(calls) \subseteq Sources
    /\ \A i, j \in DOMAIN calls :
          i < j => \E a, b \in DOMAIN SourcesInOrder :
                      a < b /\ SourcesInOrder[a] = calls[i] /\ SourcesInOrder[b] = calls[j]

\* a finished request with records to forward, after a source had failed
C10_Witness ==
    /\ pc = "done"
    /\ chunks # <<>>
    /\ Called("nhc") /\ Resp(NHC_CURRENT).kind = "error"
    /\ Len(calls) >= 3
    /\ response.added >= 1

====
